---- MODULE Spec2Model ----
(***************************************************************************)
(* FlowAgent Studio (src/App.tsx): the graph store (nodes, connections),   *)
(* the connection gesture, and the flow execution engine (runFlow,         *)
(* processQueue, handleReset) with the Generation Client                   *)
(* (src/services/geminiService.ts) as an opaque call that either returns   *)
(* a non-empty text or throws an Error with a message.                     *)
(*                                                                         *)
(* Reading of the React primitives the code is written against:            *)
(*  - setX(updater) applies the updater to the latest value of X at the    *)
(*    call (the reading the comments at App.tsx:224-225 and 239-241 rely   *)
(*    on: "currentNode holds the state BEFORE 'running'");                 *)
(*  - a handler reads nodes, connections, globalInput and isRunning of the *)
(*    render it was created in; every user event is handled after the      *)
(*    render of the preceding one, so at its start these equal the state;  *)
(*    the closures of a run keep the values of the render in which         *)
(*    runFlow was called (connections at App.tsx:253);                     *)
(*  - a continuation that becomes runnable (the join after Promise.all)    *)
(*    is a microtask and runs before the next user event or response.      *)
(* position and label of a node, and the id of a connection, are           *)
(* presentation only and are left out.                                     *)
(***************************************************************************)
EXTENDS Integers, Sequences, FiniteSets, TLC

VARIABLES
    nodes,            \* App.tsx:22  AgentNode[] (id and data)
    connections,      \* App.tsx:23  Connection[] (source, target)
    globalInput,      \* App.tsx:24
    connectionState,  \* App.tsx:34  (isConnecting, sourceNodeId)
    isRunning,        \* App.tsx:45
    now,              \* the last value Date.now() returned
    runs,             \* the runFlow activations: closure and frontier of each
    inflight          \* the Generation Client calls awaiting their result

vars == <<nodes, connections, globalInput, connectionState, isRunning, now, runs, inflight>>

-----------------------------------------------------------------------------
(* Bounds of the model *)

MaxNodes == 3
MaxConns == 3
MaxRuns == 2
MaxLevel == 3
MaxClock == 3

(* Values *)

InitialNodeId == 1
ClockStart == InitialNodeId + 1
Undefined == "undefined"
Empty == ""
InitialGlobalInput == "Artificial Intelligence"
InitialInstruction == "haiku"
GlobalInputs == {InitialGlobalInput, "hi"}
Outputs == {"o1", "o2"}
ErrorMessages == {"boom"}
NoSource == 0
EditedInstruction == "uppercase"
Instructions == {Empty, EditedInstruction}

-----------------------------------------------------------------------------
(* Array helpers; filter is SelectSeq, map a function over DOMAIN *)

Range(s) == {s[k] : k \in DOMAIN s}

HasNode(ns, id) == \E k \in DOMAIN ns : ns[k].id = id

FindNode(ns, id) ==
    ns[CHOOSE k \in DOMAIN ns : ns[k].id = id /\ \A j \in 1..(k - 1) : ns[j].id # id]

-----------------------------------------------------------------------------
(* Graph store *)

INITIAL_NODE ==
    [id |-> InitialNodeId, systemInstruction |-> InitialInstruction,
     input |-> Empty, output |-> Empty, status |-> "idle", errorMessage |-> Undefined]

NewNode(id) ==
    [id |-> id, systemInstruction |-> Empty,
     input |-> Empty, output |-> Empty, status |-> "idle", errorMessage |-> Undefined]

IdleConnectionState == [isConnecting |-> FALSE, sourceNodeId |-> NoSource]

(* A runFlow activation: status is free (slot never used), running, done or
   nostart (the alert at App.tsx:193); connections is the array the closure of
   the run holds; nextQueue is the array of App.tsx:221 of the current level;
   reached and succeeded record the node ids invoked, and completed, so far. *)
IdleRun == [status |-> "free", level |-> 0, nextQueue |-> <<>>, connections |-> <<>>,
            reached |-> {}, succeeded |-> {}]

(* The application after mount (App.tsx:22-45) *)
InitApp ==
    /\ nodes = <<INITIAL_NODE>>
    /\ connections = <<>>
    /\ globalInput = InitialGlobalInput
    /\ connectionState = IdleConnectionState
    /\ isRunning = FALSE
    /\ now = ClockStart
    /\ runs = [r \in 1..MaxRuns |-> IdleRun]
    /\ inflight = {}

(* The calls of run r awaiting their result *)
Pending(r) == {i \in inflight : i.run = r}

(* Mutation: the join releases while one task of the level is still pending *)
AllButOneSettled(r) == Cardinality(Pending(r)) <= 1

(* Promise.all (App.tsx:223): the level is joined when none of its tasks is pending *)
AllSettled(r) == Pending(r) = {}

(* A joined level whose continuation (App.tsx:266-271) has not run yet *)
JoinPending == \E r \in 1..MaxRuns : runs[r].status = "running" /\ AllSettled(r)

-----------------------------------------------------------------------------
(* User events on the graph store *)

engineVars == <<globalInput, isRunning, runs, inflight>>

addNode ==
    /\ ~JoinPending
    /\ Len(nodes) < MaxNodes
    /\ \E t \in now..MaxClock :
          /\ now' = t
          /\ nodes' = Append(nodes, NewNode(t))
    /\ UNCHANGED <<connections, connectionState, engineVars>>

KeepConnection(c, id) == c.source # id /\ c.target # id

deleteNode(id) ==
    /\ ~JoinPending
    /\ HasNode(nodes, id)
    /\ nodes' = SelectSeq(nodes, LAMBDA n : n.id # id)
    /\ connections' = SelectSeq(connections, LAMBDA c : KeepConnection(c, id))
    /\ UNCHANGED <<connectionState, now, engineVars>>

(* updateNodeData with the data of the instruction field (AgentNodeCard.tsx:99) *)
updateNodeData(id, instruction) ==
    /\ ~JoinPending
    /\ HasNode(nodes, id)
    /\ nodes' = [k \in DOMAIN nodes |->
                    IF nodes[k].id = id
                    THEN [nodes[k] EXCEPT !.systemInstruction = instruction]
                    ELSE nodes[k]]
    /\ UNCHANGED <<connections, connectionState, now, engineVars>>

handleStartConnection(id) ==
    /\ ~JoinPending
    /\ HasNode(nodes, id)
    /\ connectionState' = [isConnecting |-> TRUE, sourceNodeId |-> id]
    /\ UNCHANGED <<nodes, connections, now, engineVars>>

handleCanvasMouseUp ==
    /\ ~JoinPending
    /\ connectionState' = IdleConnectionState
    /\ UNCHANGED <<nodes, connections, now, engineVars>>

(* Mutation: the duplicate test never finds the pair *)
ConnectionExistsNever(cs, sourceId, targetId) == FALSE

ConnectionExists(cs, sourceId, targetId) ==
    \E k \in DOMAIN cs : cs[k].source = sourceId /\ cs[k].target = targetId

IsSelfLoop(sourceId, targetId) == sourceId = targetId

handleEndConnection(targetId) ==
    /\ ~JoinPending
    /\ HasNode(nodes, targetId)
    /\ IF connectionState.isConnecting /\ connectionState.sourceNodeId # NoSource
       THEN LET sourceId == connectionState.sourceNodeId IN
            IF IsSelfLoop(sourceId, targetId)
            THEN UNCHANGED <<connections, connectionState>>
            ELSE /\ ~ConnectionExists(connections, sourceId, targetId)
                      => Len(connections) < MaxConns
                 /\ connections' =
                      IF ~ConnectionExists(connections, sourceId, targetId)
                      THEN Append(connections, [source |-> sourceId, target |-> targetId])
                      ELSE connections
                 /\ connectionState' = IdleConnectionState
       ELSE /\ connectionState' = IdleConnectionState
            /\ UNCHANGED connections
    /\ UNCHANGED <<nodes, now, engineVars>>

setGlobalInput(text) ==
    /\ ~JoinPending
    /\ text # globalInput
    /\ globalInput' = text
    /\ UNCHANGED <<nodes, connections, connectionState, now, isRunning, runs, inflight>>

(* The editing operations, with no run started *)
NextGraph ==
    \/ \E text \in GlobalInputs : setGlobalInput(text)
    \/ addNode
    \/ \E id \in 1..MaxClock : deleteNode(id)
    \/ \E id \in 1..MaxClock : handleStartConnection(id)
    \/ \E id \in 1..MaxClock : handleEndConnection(id)
    \/ handleCanvasMouseUp

SpecGraph == InitApp /\ [][NextGraph]_vars

-----------------------------------------------------------------------------
(* Generation Client (src/services/geminiService.ts): the call returns a
   non-empty text (line 28) or throws an Error with a message (lines 14, 31).
   Its result is the environment's choice. *)

generateAgentResponse == [ok : {TRUE}, text : Outputs] \cup [ok : {FALSE}, text : ErrorMessages]

Returned == {res.text : res \in {x \in generateAgentResponse : x.ok}}

Thrown == {res.text : res \in {x \in generateAgentResponse : ~x.ok}}

-----------------------------------------------------------------------------
(* Execution engine *)

(* Mutation: the roots taken as the nodes that are the source of no connection *)
getRootNodesBySource(ns, cs) ==
    LET sources == {cs[k].source : k \in DOMAIN cs}
    IN  SelectSeq(ns, LAMBDA n : n.id \notin sources)

getRootNodes(ns, cs) ==
    LET targets == {cs[k].target : k \in DOMAIN cs}
    IN  SelectSeq(ns, LAMBDA n : n.id \notin targets)

RootQueue(rootNodes, input) ==
    [k \in DOMAIN rootNodes |-> [nodeId |-> rootNodes[k].id, input |-> input]]

(* Mutation: the reset at the start of a run also clears input and output *)
ResetStatusClearsData(n) ==
    [n EXCEPT !.status = "idle", !.errorMessage = Undefined, !.input = Empty, !.output = Empty]

(* Mutation: the reset at the start of a run clears errorMessage only *)
ResetStatusKeepsStatus(n) == [n EXCEPT !.errorMessage = Undefined]

ResetStatus(n) == [n EXCEPT !.status = "idle", !.errorMessage = Undefined]

ResetNode(n) == [n EXCEPT !.status = "idle", !.output = Empty, !.input = Empty]

(* Mutation: a node already running keeps the input of its first arrival *)
SetRunningFirstArrival(ns, nodeId, input) ==
    IF ~HasNode(ns, nodeId) THEN ns
    ELSE [k \in DOMAIN ns |-> IF ns[k].id = nodeId /\ ns[k].status # "running"
                              THEN [ns[k] EXCEPT !.status = "running", !.input = input]
                              ELSE ns[k]]

SetRunning(ns, nodeId, input) ==
    IF ~HasNode(ns, nodeId) THEN ns
    ELSE [k \in DOMAIN ns |-> IF ns[k].id = nodeId
                              THEN [ns[k] EXCEPT !.status = "running", !.input = input]
                              ELSE ns[k]]

(* Mutation: the success write replaces the array by a snapshot in which only
   the succeeding node has left the idle state *)
SetCompletedFromSnapshot(ns, nodeId, output) ==
    [k \in DOMAIN ns |-> IF ns[k].id = nodeId
                         THEN [ns[k] EXCEPT !.status = "completed", !.output = output]
                         ELSE [ns[k] EXCEPT !.status = "idle"]]

SetCompleted(ns, nodeId, output) ==
    [k \in DOMAIN ns |-> IF ns[k].id = nodeId
                         THEN [ns[k] EXCEPT !.status = "completed", !.output = output]
                         ELSE ns[k]]

(* Mutation: the catch marks the node without recording the message *)
SetErrorNoMessage(ns, nodeId, message) ==
    [k \in DOMAIN ns |-> IF ns[k].id = nodeId THEN [ns[k] EXCEPT !.status = "error"]
                         ELSE ns[k]]

(* Mutation: the catch maps every node, not only the one that failed *)
SetErrorAll(ns, nodeId, message) ==
    [k \in DOMAIN ns |-> [ns[k] EXCEPT !.status = "error", !.errorMessage = message]]

SetError(ns, nodeId, message) ==
    [k \in DOMAIN ns |-> IF ns[k].id = nodeId
                         THEN [ns[k] EXCEPT !.status = "error", !.errorMessage = message]
                         ELSE ns[k]]

(* The setNodes calls of one level, in the order of currentQueue (App.tsx:223-233) *)
RECURSIVE MarkRunning(_, _)
MarkRunning(ns, queue) ==
    IF queue = <<>> THEN ns
    ELSE MarkRunning(SetRunning(ns, Head(queue).nodeId, Head(queue).input), Tail(queue))

(* Mutation: the call takes the instruction the node was created with *)
InvocationsCreatedInstruction(r, lvl, queue, ns) ==
    {[run |-> r, level |-> lvl, idx |-> k, nodeId |-> queue[k].nodeId,
      input |-> queue[k].input,
      systemInstruction |-> IF queue[k].nodeId = InitialNodeId
                            THEN INITIAL_NODE.systemInstruction
                            ELSE NewNode(queue[k].nodeId).systemInstruction] :
        k \in {j \in DOMAIN queue : HasNode(ns, queue[j].nodeId)}}

(* The calls one level issues: a task whose node is not found returns at once
   (App.tsx:235); the instruction is read from the node as found (App.tsx:243) *)
Invocations(r, lvl, queue, ns) ==
    {[run |-> r, level |-> lvl, idx |-> k, nodeId |-> queue[k].nodeId,
      input |-> queue[k].input,
      systemInstruction |-> FindNode(ns, queue[k].nodeId).systemInstruction] :
        k \in {j \in DOMAIN queue : HasNode(ns, queue[j].nodeId)}}

(* Mutation: only the first outgoing connection is followed *)
ChildrenFirstEdge(cs, nodeId, output) ==
    LET outgoingEdges == SelectSeq(cs, LAMBDA c : c.source = nodeId)
    IN  [k \in DOMAIN outgoingEdges \cap {1} |->
            [nodeId |-> outgoingEdges[k].target, input |-> output]]

(* The entries one success pushes (App.tsx:253-256) *)
Children(cs, nodeId, output) ==
    LET outgoingEdges == SelectSeq(cs, LAMBDA c : c.source = nodeId)
    IN  [k \in DOMAIN outgoingEdges |-> [nodeId |-> outgoingEdges[k].target, input |-> output]]

NextLevel(lvl) == IF lvl < MaxLevel THEN lvl + 1 ELSE MaxLevel

(* processQueue up to its await (App.tsx:215-223), for run r, on node array ns *)
processQueue(r, lvl, currentQueue, ns, run, running) ==
    LET issued == Invocations(r, lvl, currentQueue, ns)
    IN  IF currentQueue = <<>> \/ issued = {}
        THEN /\ nodes' = ns
             /\ inflight' = inflight
             /\ runs' = [runs EXCEPT ![r] = [run EXCEPT !.status = "done", !.level = lvl,
                                                         !.nextQueue = <<>>]]
             /\ isRunning' = FALSE
        ELSE /\ nodes' = MarkRunning(ns, currentQueue)
             /\ inflight' = inflight \cup issued
             /\ runs' = [runs EXCEPT ![r] =
                           [run EXCEPT !.status = "running", !.level = lvl,
                                       !.nextQueue = <<>>,
                                       !.reached = @ \cup {i.nodeId : i \in issued}]]
             /\ isRunning' = running

(* Mutation: the test for a missing start node is never taken *)
NoStartNodeIgnored(rootNodes, ns) == FALSE

(* The test of App.tsx:190 *)
NoStartNode(rootNodes, ns) == Len(rootNodes) = 0 /\ Len(ns) > 0

FreeSlot(r) ==
    /\ runs[r].status # "running"
    /\ \A q \in 1..(r - 1) : runs[q].status = "running"

runFlow ==
    /\ ~JoinPending
    /\ ~isRunning
    /\ \E r \in 1..MaxRuns :
         /\ FreeSlot(r)
         /\ LET reset == [k \in DOMAIN nodes |-> ResetStatus(nodes[k])]
                rootNodes == getRootNodes(nodes, connections)
                run == [IdleRun EXCEPT !.connections = connections]
            IN  IF NoStartNode(rootNodes, nodes)
                THEN /\ nodes' = reset
                     /\ isRunning' = FALSE
                     /\ runs' = [runs EXCEPT ![r] = [run EXCEPT !.status = "nostart"]]
                     /\ inflight' = inflight
                ELSE processQueue(r, 0, RootQueue(rootNodes, globalInput), reset, run, TRUE)
    /\ UNCHANGED <<connections, globalInput, connectionState, now>>

(* Mutation: the children are taken from the connections of the latest render *)
SettleSuccessLiveConnections(i, output) ==
    /\ ~JoinPending
    /\ i \in inflight
    /\ nodes' = SetCompleted(nodes, i.nodeId, output)
    /\ inflight' = inflight \ {i}
    /\ runs' = [runs EXCEPT ![i.run].nextQueue =
                               @ \o Children(connections, i.nodeId, output),
                            ![i.run].succeeded = @ \cup {i.nodeId}]
    /\ UNCHANGED <<connections, globalInput, connectionState, now, isRunning>>

(* The task of invocation i resumes with the text of the call (App.tsx:246-256) *)
SettleSuccess(i, output) ==
    /\ ~JoinPending
    /\ i \in inflight
    /\ nodes' = SetCompleted(nodes, i.nodeId, output)
    /\ inflight' = inflight \ {i}
    /\ runs' = [runs EXCEPT ![i.run].nextQueue =
                               @ \o Children(runs[i.run].connections, i.nodeId, output),
                            ![i.run].succeeded = @ \cup {i.nodeId}]
    /\ UNCHANGED <<connections, globalInput, connectionState, now, isRunning>>

(* Mutation: the failure is not caught in the task, so Promise.all rejects and
   processQueue never reaches setIsRunning(false) *)
SettleFailureEscapes(i, message) ==
    /\ ~JoinPending
    /\ i \in inflight
    /\ inflight' = inflight \ {i}
    /\ runs' = [runs EXCEPT ![i.run].status = "rejected"]
    /\ UNCHANGED <<nodes, connections, globalInput, connectionState, now, isRunning>>

(* The task of invocation i resumes in its catch (App.tsx:258-263) *)
SettleFailure(i, message) ==
    /\ ~JoinPending
    /\ i \in inflight
    /\ nodes' = SetError(nodes, i.nodeId, message)
    /\ inflight' = inflight \ {i}
    /\ UNCHANGED <<connections, globalInput, connectionState, now, isRunning, runs>>

(* Mutation: an iteration cap; the run ends when it has reached level MaxLevel *)
AdvanceCapped(r) ==
    /\ runs[r].status = "running"
    /\ AllSettled(r)
    /\ IF Len(runs[r].nextQueue) > 0 /\ runs[r].level < MaxLevel
       THEN processQueue(r, NextLevel(runs[r].level), runs[r].nextQueue, nodes, runs[r],
                         isRunning)
       ELSE /\ isRunning' = FALSE
            /\ runs' = [runs EXCEPT ![r].status = "done", ![r].nextQueue = <<>>]
            /\ UNCHANGED <<nodes, inflight>>
    /\ UNCHANGED <<connections, globalInput, connectionState, now>>

(* processQueue resumes after Promise.all (App.tsx:266-271) *)
Advance(r) ==
    /\ runs[r].status = "running"
    /\ AllSettled(r)
    /\ IF Len(runs[r].nextQueue) > 0
       THEN processQueue(r, NextLevel(runs[r].level), runs[r].nextQueue, nodes, runs[r],
                         isRunning)
       ELSE /\ isRunning' = FALSE
            /\ runs' = [runs EXCEPT ![r].status = "done"]
            /\ UNCHANGED <<nodes, inflight>>
    /\ UNCHANGED <<connections, globalInput, connectionState, now>>

(* Mutation: reset abandons the calls in flight and ends the runs *)
handleResetCancels ==
    /\ ~JoinPending
    /\ nodes' = [k \in DOMAIN nodes |-> ResetNode(nodes[k])]
    /\ isRunning' = FALSE
    /\ inflight' = {}
    /\ runs' = [r \in 1..MaxRuns |->
                  IF runs[r].status = "running"
                  THEN [runs[r] EXCEPT !.status = "done", !.nextQueue = <<>>]
                  ELSE runs[r]]
    /\ UNCHANGED <<connections, globalInput, connectionState, now>>

handleReset ==
    /\ ~JoinPending
    /\ nodes' = [k \in DOMAIN nodes |-> ResetNode(nodes[k])]
    /\ isRunning' = FALSE
    /\ UNCHANGED <<connections, globalInput, connectionState, now, runs, inflight>>

-----------------------------------------------------------------------------
(* The graphs the editing operations build: INITIAL_NODE and the nodes added at
   clock values 2..n, with any set of at most MaxConns connections that
   handleEndConnection accepts, listed in one order. The added nodes are created
   alike (NewNode), so of the graphs that differ only by a renaming of the added
   nodes one is taken. *)

NodeList(n) == [k \in 1..n |-> IF k = InitialNodeId THEN INITIAL_NODE ELSE NewNode(k)]

Pairs(n) == {p \in (1..n) \X (1..n) : p[1] # p[2]}

PairKey(p) == (p[1] - 1) * MaxNodes + (p[2] - 1)

RECURSIVE ConnectionList(_)
ConnectionList(S) ==
    IF S = {} THEN <<>>
    ELSE LET p == CHOOSE x \in S : \A y \in S : PairKey(x) <= PairKey(y)
         IN  <<[source |-> p[1], target |-> p[2]]>> \o ConnectionList(S \ {p})

RECURSIVE Pow2(_)
Pow2(k) == IF k = 0 THEN 1 ELSE 2 * Pow2(k - 1)

RECURSIVE Weight(_)
Weight(S) ==
    IF S = {} THEN 0
    ELSE LET p == CHOOSE x \in S : TRUE IN Pow2(PairKey(p)) + Weight(S \ {p})

Renamings(n) ==
    {f \in [1..n -> 1..n] :
        /\ \A a \in 1..n : a = InitialNodeId => f[a] = a
        /\ \A a, b \in 1..n : f[a] = f[b] => a = b}

Rename(S, f) == {<<f[p[1]], f[p[2]]>> : p \in S}

Canonical(n, S) == \A f \in Renamings(n) : Weight(S) <= Weight(Rename(S, f))

Init ==
    /\ \E n \in 0..MaxNodes :
         /\ nodes = NodeList(n)
         /\ now = IF n < ClockStart THEN ClockStart ELSE n
         /\ \E S \in SUBSET Pairs(n) :
              /\ Cardinality(S) <= MaxConns
              /\ Canonical(n, S)
              /\ connections = ConnectionList(S)
    /\ globalInput \in GlobalInputs
    /\ connectionState = IdleConnectionState
    /\ isRunning = FALSE
    /\ runs = [r \in 1..MaxRuns |-> IdleRun]
    /\ inflight = {}

NextRun ==
    \/ runFlow
    \/ \E i \in inflight : \E output \in Returned : SettleSuccess(i, output)
    \/ \E i \in inflight : \E message \in Thrown : SettleFailure(i, message)
    \/ \E r \in 1..MaxRuns : Advance(r)

Next ==
    \/ runFlow
    \/ \E i \in inflight : \E output \in Returned : SettleSuccess(i, output)
    \/ \E i \in inflight : \E message \in Thrown : SettleFailure(i, message)
    \/ \E r \in 1..MaxRuns : Advance(r)
    \/ handleReset

(* The engine with reset, from the global input of the mount *)
InitMounted == Init /\ globalInput = InitialGlobalInput

Spec == InitMounted /\ [][Next]_vars

(* The engine with no reset during a run's lifetime *)
SpecRun == Init /\ [][NextRun]_vars

(* The engine when every Generation Client call returns a text *)
NextSucceed ==
    \/ runFlow
    \/ \E i \in inflight : \E output \in Returned : SettleSuccess(i, output)
    \/ \E r \in 1..MaxRuns : Advance(r)

SpecSucceed == Init /\ [][NextSucceed]_vars

(* The engine with reset, when run() is called once *)
NextOneRun ==
    \/ runFlow /\ \A r \in 1..MaxRuns : runs[r].status = "free"
    \/ \E i \in inflight : \E output \in Returned : SettleSuccess(i, output)
    \/ \E i \in inflight : \E message \in Thrown : SettleFailure(i, message)
    \/ \E r \in 1..MaxRuns : Advance(r)
    \/ handleReset

SpecOneRun == InitMounted /\ [][NextOneRun]_vars

(* One run, with the instruction fields edited while it is in progress; the
   calls that return all return the same text *)
NextPersona ==
    \/ runFlow /\ \A r \in 1..MaxRuns : runs[r].status = "free"
    \/ \E i \in inflight : SettleSuccess(i, "o1")
    \/ \E i \in inflight : \E message \in Thrown : SettleFailure(i, message)
    \/ \E r \in 1..MaxRuns : Advance(r)
    \/ \E id \in 1..MaxClock : \E instruction \in Instructions :
          updateNodeData(id, instruction) /\ isRunning

SpecPersona == InitMounted /\ [][NextPersona]_vars

(* One run, with nodes deleted and connections drawn while it is in progress *)
NextEditRun ==
    \/ runFlow /\ \A r \in 1..MaxRuns : runs[r].status = "free"
    \/ \E i \in inflight : \E output \in Returned : SettleSuccess(i, output)
    \/ \E i \in inflight : \E message \in Thrown : SettleFailure(i, message)
    \/ \E r \in 1..MaxRuns : Advance(r)
    \/ \E id \in 1..MaxClock : deleteNode(id) /\ isRunning
    \/ \E id \in 1..MaxClock : handleStartConnection(id) /\ isRunning
    \/ \E id \in 1..MaxClock : handleEndConnection(id) /\ isRunning

SpecEditRun == InitMounted /\ [][NextEditRun]_vars

(* Every issued call settles, and a joined level resumes *)
Settles ==
    \E i \in inflight : \E res \in generateAgentResponse :
        IF res.ok THEN SettleSuccess(i, res.text) ELSE SettleFailure(i, res.text)

Resumes == \E r \in 1..MaxRuns : Advance(r)

FairRun == SpecRun /\ WF_vars(Settles \/ Resumes)

-----------------------------------------------------------------------------
(* Vocabulary of the properties *)

Slots == 1..MaxRuns

IsTarget(cs, id) == \E k \in DOMAIN cs : cs[k].target = id

RootIds(ns, cs) == {ns[k].id : k \in {j \in DOMAIN ns : ~IsTarget(cs, ns[j].id)}}

Succ(cs, S) == {cs[k].target : k \in {j \in DOMAIN cs : cs[j].source \in S}}

RECURSIVE ReachFrom(_, _, _)
ReachFrom(cs, S, n) ==
    IF n = 0 \/ Succ(cs, S) \subseteq S THEN S ELSE ReachFrom(cs, S \cup Succ(cs, S), n - 1)

Descendants(cs, id) == ReachFrom(cs, Succ(cs, {id}), Len(cs))

Acyclic(cs) == \A k \in DOMAIN cs : cs[k].source \notin Descendants(cs, cs[k].source)

ReachableFromRoot(ns, cs) == ReachFrom(cs, RootIds(ns, cs), Len(cs))

Settled(n) == n.status \in {"completed", "error"}

Sources(cs, id) == {cs[k].source : k \in {j \in DOMAIN cs : cs[j].target = id}}

NodeIds(ns) == {ns[k].id : k \in DOMAIN ns}

(* c is the target of exactly two connections, both leaving roots *)
FanIn(ns, cs, c) ==
    /\ Cardinality(Sources(cs, c)) = 2
    /\ Sources(cs, c) \subseteq RootIds(ns, cs)

Pred(cs, S) == {cs[k].source : k \in {j \in DOMAIN cs : cs[j].target \in S}}

RECURSIVE ReachBack(_, _, _)
ReachBack(cs, S, n) ==
    IF n = 0 \/ Pred(cs, S) \subseteq S THEN S ELSE ReachBack(cs, S \cup Pred(cs, S), n - 1)

(* id and each node from which id can be reached is the target of at most one
   connection: a run invokes such a node at most once *)
SingleArrival(cs, id) ==
    \A x \in ReachBack(cs, {id}, Len(cs)) : Cardinality(Sources(cs, x)) <= 1

(* The graph has a root, and a cycle that can be reached from a root *)
CycleReachable(ns, cs) ==
    \E x \in ReachableFromRoot(ns, cs) : x \in Descendants(cs, x)

EntriesFor(queue, c) == SelectSeq(queue, LAMBDA e : e.nodeId = c)

LastOf(queue) == queue[Len(queue)]

-----------------------------------------------------------------------------
(* C1: when run() is called on a graph that has a root, the calls it issues are
   exactly one per root node, each with the global input of that moment, at
   level 0; and at no time is a call on a root pending together with a call on
   a non-root node of the same run, a non-root node being called only at a
   later level. *)
C1_RootsFirstWithGlobalInput ==
    /\ [][(runFlow /\ RootIds(nodes, connections) # {}) =>
            \E r \in Slots :
               /\ runs[r].status # "running" /\ runs'[r].status = "running"
               /\ runs'[r].level = 0
               /\ inflight \subseteq inflight'
               /\ \A i \in inflight' \ inflight :
                     i.run = r /\ i.level = 0 /\ i.input = globalInput
               /\ {i.nodeId : i \in inflight' \ inflight} = RootIds(nodes, connections)
               /\ Cardinality(inflight' \ inflight) = Cardinality(RootIds(nodes, connections))
         ]_vars
    /\ [](\A i \in inflight :
             (i.level = 0) <=> ~IsTarget(runs[i.run].connections, i.nodeId))
    /\ [](\A i, j \in inflight :
             (i.run = j.run /\ ~IsTarget(runs[i.run].connections, i.nodeId))
                 => ~IsTarget(runs[j.run].connections, j.nodeId))

C1_Witness ==
    \E i \in inflight :
       /\ i.level = 1
       /\ IsTarget(connections, i.nodeId)
       /\ \E k \in DOMAIN nodes :
             /\ ~IsTarget(connections, nodes[k].id)
             /\ nodes[k].status = "completed"
             /\ nodes[k].input = "hi"

(* C2: a run over a graph without cycles terminates, whatever mix of successes
   and failures the calls end in: once such a run is in progress, eventually no
   run is in progress, no call is pending, no frontier is left and isRunning is
   false. *)
C2_AcyclicRunTerminates ==
    (\E r \in Slots : runs[r].status = "running" /\ Acyclic(runs[r].connections))
      ~> (/\ \A r \in Slots : runs[r].status # "running" /\ runs[r].nextQueue = <<>>
          /\ inflight = {}
          /\ ~isRunning)

C2_Witness ==
    /\ \E r \in Slots :
          /\ runs[r].status = "done"
          /\ runs[r].level >= 1
          /\ Acyclic(runs[r].connections)
    /\ inflight = {}
    /\ ~isRunning
    /\ \E k \in DOMAIN nodes : nodes[k].status = "error"
    /\ \E k \in DOMAIN nodes : nodes[k].status = "completed"

(* C3 as stated: when a run over a graph without cycles has terminated, each
   node reachable from a root is completed or error and every other node is
   idle. *)
C3_ReachableSettled ==
    \A r \in Slots :
       (runs[r].status = "done" /\ Acyclic(runs[r].connections)) =>
          \A k \in DOMAIN nodes :
             IF nodes[k].id \in ReachableFromRoot(nodes, runs[r].connections)
             THEN Settled(nodes[k])
             ELSE nodes[k].status = "idle"

(* C3 amended: when a run over a graph without cycles, during which reset() was
   not called, has terminated, the nodes invoked in it are the roots and the
   targets of the connections leaving a node whose invocation succeeded; each
   invoked node is completed or error, and every other node is idle. *)
C3_InvokedSettled ==
    \A r \in Slots :
       (runs[r].status = "done" /\ Acyclic(runs[r].connections)) =>
          /\ runs[r].reached =
                RootIds(nodes, runs[r].connections)
                  \cup Succ(runs[r].connections, runs[r].succeeded)
          /\ \A k \in DOMAIN nodes :
                IF nodes[k].id \in runs[r].reached
                THEN Settled(nodes[k])
                ELSE nodes[k].status = "idle"

C3_Witness ==
    \E r \in Slots :
       /\ runs[r].status = "done"
       /\ Acyclic(runs[r].connections)
       /\ \E k, j \in DOMAIN nodes :
             /\ nodes[k].status = "error"
             /\ nodes[j].status = "idle"
             /\ nodes[j].output # Empty
             /\ nodes[j].id \in Descendants(runs[r].connections, nodes[k].id)

(* C4: run() on a non-empty graph in which every node is the target of a
   connection ends in the NoStartNode condition: it issues no call, leaves
   isRunning false, and no call ever belongs to that run. *)
C4_NoStartNodeAborts ==
    /\ [][(runFlow /\ Len(nodes) > 0
                   /\ \A k \in DOMAIN nodes : IsTarget(connections, nodes[k].id)) =>
            /\ inflight' = inflight
            /\ ~isRunning'
            /\ \E r \in Slots : runs[r].status # "nostart" /\ runs'[r].status = "nostart"
            /\ \A r \in Slots : runs'[r].status # "running"
         ]_vars
    /\ [](\A r \in Slots : runs[r].status = "nostart" => Pending(r) = {} /\ ~isRunning)

C4_Witness ==
    /\ \E r \in Slots : runs[r].status = "nostart"
    /\ Len(nodes) = 2
    /\ \A k \in DOMAIN nodes : IsTarget(connections, nodes[k].id)
    /\ ~isRunning
    /\ inflight = {}

(* C5: the pending calls of a run all belong to the run's current level, so no
   call of level k+1 is issued while a call of level k is pending; and a run
   moves to its next level only from a state in which none of its calls is
   pending. *)
C5_LevelsSequential ==
    \A r \in Slots :
       /\ \A i \in Pending(r) : i.level = runs[r].level /\ runs[r].status = "running"
       /\ \A i, j \in Pending(r) : i.level = j.level

C5_Witness ==
    \E r \in Slots :
       /\ runs[r].level >= 1
       /\ Pending(r) # {}
       /\ Len(runs[r].nextQueue) > 0

(* C6: when the call of an invocation fails, its node is error with the
   failure's message and the next frontier is unchanged; a node is invoked in a
   run only if it is a root or the target of a connection leaving a node whose
   invocation succeeded, and a node not invoked in the run is idle. *)
C6_FailureStopsPropagation ==
    /\ [][\A i \in inflight : \A m \in Thrown :
             SettleFailure(i, m) =>
                /\ \A k \in DOMAIN nodes' :
                      nodes'[k].id = i.nodeId =>
                         nodes'[k].status = "error" /\ nodes'[k].errorMessage = m
                /\ runs'[i.run].nextQueue = runs[i.run].nextQueue
         ]_vars
    /\ [](\A r \in Slots :
             runs[r].status \in {"running", "done"} =>
                /\ runs[r].reached \subseteq
                      RootIds(nodes, runs[r].connections)
                        \cup Succ(runs[r].connections, runs[r].succeeded)
                /\ \A k \in DOMAIN nodes :
                      nodes[k].id \notin runs[r].reached => nodes[k].status = "idle")

C6_Witness ==
    \E r \in Slots :
       /\ runs[r].status = "done"
       /\ \E k, j \in DOMAIN nodes :
             /\ nodes[k].status = "error"
             /\ nodes[k].errorMessage = "boom"
             /\ nodes[j].status = "idle"
             /\ nodes[j].id \notin runs[r].reached
             /\ \E c \in Range(runs[r].connections) :
                   c.source = nodes[k].id /\ c.target = nodes[j].id

(* C7: the failure of an invocation changes only the status and errorMessage of
   its own node: every other node keeps all its fields, the other pending calls
   stay pending and the entries already placed in the next frontier stay. *)
C7_FailureIsLocal ==
    [][\A i \in inflight : \A m \in Thrown :
          SettleFailure(i, m) =>
             /\ Len(nodes') = Len(nodes)
             /\ \A k \in DOMAIN nodes :
                   IF nodes[k].id = i.nodeId
                   THEN nodes'[k] = [nodes[k] EXCEPT !.status = "error", !.errorMessage = m]
                   ELSE nodes'[k] = nodes[k]
             /\ inflight' = inflight \ {i}
             /\ runs' = runs
      ]_vars

C7_Witness ==
    /\ \E k, j \in DOMAIN nodes :
          /\ nodes[k].status = "error"
          /\ nodes[j].status = "completed"
          /\ nodes[j].output \in Outputs
    /\ \E i \in inflight : i.level >= 1

(* C8 as stated: at most one run is ever in progress. *)
C8_AtMostOneRun ==
    Cardinality({r \in Slots : runs[r].status = "running"}) <= 1

(* C9 as stated: reset() called when no run is in progress leaves every node
   idle with input, output and errorMessage cleared, and isRunning false. *)
C9_ResetClearsEverything ==
    [][(handleReset /\ \A r \in Slots : runs[r].status # "running") =>
          /\ \A k \in DOMAIN nodes' :
                /\ nodes'[k].status = "idle"
                /\ nodes'[k].input = Empty
                /\ nodes'[k].output = Empty
                /\ nodes'[k].errorMessage = Undefined
          /\ ~isRunning'
      ]_vars

(* C10: the connection array never holds a connection from a node to itself nor
   two connections with the same source and target; ending a connection
   gesture on its own source, or on a target already connected from that
   source, leaves the array unchanged. *)
C10_ConnectionsSimple ==
    /\ [](\A k \in DOMAIN connections : connections[k].source # connections[k].target)
    /\ [](\A k, j \in DOMAIN connections :
             (connections[k].source = connections[j].source
               /\ connections[k].target = connections[j].target) => k = j)
    /\ [][\A t \in 1..MaxClock :
             (/\ handleEndConnection(t)
              /\ connectionState.isConnecting
              /\ \/ connectionState.sourceNodeId = t
                 \/ \E k \in DOMAIN connections :
                       /\ connections[k].source = connectionState.sourceNodeId
                       /\ connections[k].target = t)
                => connections' = connections
         ]_vars

C10_Witness ==
    /\ Len(connections) >= 2
    /\ connectionState.isConnecting
    /\ \E k \in DOMAIN connections :
          connections[k].source = connectionState.sourceNodeId

(* C11 as stated: deleteNode(x) removes the connections that touch x and no
   other, and every connection's source and target are ids of nodes of the
   graph. *)
C11_ConnectionsReferToNodes ==
    /\ [][\A id \in 1..MaxClock :
             deleteNode(id) =>
                connections' = SelectSeq(connections,
                                         LAMBDA c : c.source # id /\ c.target # id)
         ]_vars
    /\ [](\A k \in DOMAIN connections :
             /\ HasNode(nodes, connections[k].source)
             /\ HasNode(nodes, connections[k].target))

(* C13 as stated: a node has an errorMessage only if its status is error. *)
C13_ErrorMessageOnlyWhenError ==
    \A k \in DOMAIN nodes :
       nodes[k].errorMessage # Undefined => nodes[k].status = "error"

(* C14 as stated: when isRunning is false no call of any run is pending and no
   run has a frontier left to process. *)
C14_NotRunningMeansIdle ==
    ~isRunning =>
       /\ inflight = {}
       /\ \A r \in Slots : runs[r].status # "running" /\ runs[r].nextQueue = <<>>

(* C15 as stated: no two nodes of the graph share an id. *)
C15_UniqueNodeIds ==
    \A k, j \in DOMAIN nodes : nodes[k].id = nodes[j].id => k = j

(* C12: fan-in. When the two sources of c are roots and both succeed: the
   success that settles last of the two leaves its output in the last frontier
   entry for c, and no other step of the level touches the entries for c; the
   next level invokes c exactly twice, once with the output of each source, and
   leaves c with the input of the last entry; c keeps that input until the run
   ends; and the run never leaves the states running and done (no failure
   escapes it). *)
C12_FanInInvokedTwice ==
    /\ [][\A i \in inflight : \A o \in Returned : \A c \in NodeIds(nodes) :
             (/\ SettleSuccess(i, o)
              /\ i.level = 0
              /\ FanIn(nodes, runs[i.run].connections, c)
              /\ i.nodeId \in Sources(runs[i.run].connections, c)
              /\ Sources(runs[i.run].connections, c) \ {i.nodeId}
                    \subseteq runs[i.run].succeeded)
                => /\ Len(EntriesFor(runs'[i.run].nextQueue, c)) = 2
                   /\ LastOf(EntriesFor(runs'[i.run].nextQueue, c)).input = o
         ]_vars
    /\ [][\A r \in Slots : \A c \in NodeIds(nodes) :
             (/\ FanIn(nodes, runs[r].connections, c)
              /\ runs[r].status = "running" /\ runs[r].level = 0
              /\ runs'[r].status = "running" /\ runs'[r].level = 0
              /\ runs'[r].succeeded \cap Sources(runs[r].connections, c)
                    = runs[r].succeeded \cap Sources(runs[r].connections, c))
                => EntriesFor(runs'[r].nextQueue, c) = EntriesFor(runs[r].nextQueue, c)
         ]_vars
    /\ [][\A r \in Slots : \A c \in NodeIds(nodes) :
             (/\ Advance(r)
              /\ runs[r].level = 0
              /\ FanIn(nodes, runs[r].connections, c)
              /\ Sources(runs[r].connections, c) \subseteq runs[r].succeeded)
                => LET new == {i \in inflight' \ inflight : i.nodeId = c}
                   IN  /\ Cardinality(new) = 2
                       /\ \A i \in new : i.run = r /\ i.level = 1
                       /\ \E i, j \in new : \E a, b \in Sources(runs[r].connections, c) :
                             /\ i # j /\ a # b
                             /\ i.input = FindNode(nodes, a).output
                             /\ j.input = FindNode(nodes, b).output
                       /\ FindNode(nodes', c).input
                             = LastOf(EntriesFor(runs[r].nextQueue, c)).input
         ]_vars
    /\ [][\A r \in Slots : \A c \in NodeIds(nodes) :
             (/\ FanIn(nodes, runs[r].connections, c)
              /\ runs[r].level >= 1 /\ runs'[r].level >= 1)
                => FindNode(nodes', c).input = FindNode(nodes, c).input
         ]_vars
    /\ [](\A r \in Slots :
             (\E c \in NodeIds(nodes) : FanIn(nodes, runs[r].connections, c))
                => runs[r].status \in {"free", "running", "done"})

C12_Witness ==
    \E r \in Slots : \E c \in NodeIds(nodes) :
       /\ runs[r].status = "done"
       /\ FanIn(nodes, runs[r].connections, c)
       /\ Sources(runs[r].connections, c) \cup {c} \subseteq runs[r].succeeded
       /\ \E a \in Sources(runs[r].connections, c) :
             FindNode(nodes, a).output # FindNode(nodes, c).input
       /\ \E b \in Sources(runs[r].connections, c) :
             FindNode(nodes, b).output = FindNode(nodes, c).input

(* C16: a success with output o marks its node completed with output o and
   appends to the next frontier exactly one entry (target, o) per connection
   leaving the node; the frontier changes in no other way until the level is
   joined; the next level issues one call per frontier entry, on the entry's
   node with the entry's input; a frontier entry always has a connection from
   a succeeded node to its node; and a node whose only source is a root,
   once invoked in the run, has the root's output as its input. *)
C16_SuccessFeedsNextLevel ==
    /\ [][\A i \in inflight : \A o \in Returned :
             SettleSuccess(i, o) =>
                LET cs == runs[i.run].connections
                    before == runs[i.run].nextQueue
                    after == runs'[i.run].nextQueue
                    added == SubSeq(after, Len(before) + 1, Len(after))
                    outgoing == {k \in DOMAIN cs : cs[k].source = i.nodeId}
                IN  /\ \A k \in DOMAIN nodes' :
                          nodes'[k].id = i.nodeId =>
                             nodes'[k].status = "completed" /\ nodes'[k].output = o
                    /\ Len(after) = Len(before) + Cardinality(outgoing)
                    /\ SubSeq(after, 1, Len(before)) = before
                    /\ \A e \in Range(added) :
                          e.input = o /\ \E k \in outgoing : cs[k].target = e.nodeId
                    /\ \A k \in outgoing :
                          Cardinality({j \in DOMAIN added :
                                          added[j].nodeId = cs[k].target}) = 1
         ]_vars
    /\ [][\A r \in Slots :
             runs'[r].nextQueue # runs[r].nextQueue =>
                \/ runs'[r].nextQueue = <<>>
                \/ \E i \in Pending(r) : \E o \in Returned : SettleSuccess(i, o)
         ]_vars
    /\ [][\A r \in Slots :
             Advance(r) =>
                LET queue == runs[r].nextQueue
                    new == inflight' \ inflight
                IN  /\ \A j \in new :
                          /\ j.run = r /\ j.level = runs'[r].level
                          /\ j.idx \in DOMAIN queue
                          /\ queue[j.idx].nodeId = j.nodeId
                          /\ queue[j.idx].input = j.input
                    /\ \A k \in DOMAIN queue :
                          HasNode(nodes, queue[k].nodeId) => \E j \in new : j.idx = k
         ]_vars
    /\ [](\A r \in Slots : \A e \in Range(runs[r].nextQueue) :
             \E c \in Range(runs[r].connections) :
                c.target = e.nodeId /\ c.source \in runs[r].succeeded)
    /\ [](\A r \in Slots : \A t \in NodeIds(nodes) :
             (/\ runs[r].status \in {"running", "done"}
              /\ Cardinality(Sources(runs[r].connections, t)) = 1
              /\ Sources(runs[r].connections, t) \subseteq RootIds(nodes, runs[r].connections))
                => \A s \in Sources(runs[r].connections, t) :
                      /\ \A i \in inflight :
                            i.nodeId = t => i.input = FindNode(nodes, s).output
                      /\ FindNode(nodes, t).status # "idle" =>
                            /\ FindNode(nodes, s).status = "completed"
                            /\ FindNode(nodes, t).input = FindNode(nodes, s).output)

C16_Witness ==
    \E r \in Slots : \E s, t \in NodeIds(nodes) :
       /\ runs[r].status = "done"
       /\ Sources(runs[r].connections, t) = {s}
       /\ s \in RootIds(nodes, runs[r].connections)
       /\ Cardinality({c \in Range(runs[r].connections) : c.source = s}) = 2
       /\ FindNode(nodes, t).status = "completed"
       /\ FindNode(nodes, s).output = "o2"
       /\ FindNode(nodes, t).input = "o2"

(* C17 as stated: when the last of the calls a level issued on a node settles,
   the node's status, input and output (or errorMessage) are those of that one
   call: its input is the call's input, and its output or errorMessage the
   call's result. *)
C17_LastWriterWinsAsUnit ==
    /\ [][\A i \in inflight : \A o \in Returned :
             (/\ SettleSuccess(i, o)
              /\ \A j \in Pending(i.run) : j.nodeId = i.nodeId => j = i)
                => \A k \in DOMAIN nodes' :
                      nodes'[k].id = i.nodeId =>
                         /\ nodes'[k].status = "completed"
                         /\ nodes'[k].input = i.input
                         /\ nodes'[k].output = o
         ]_vars
    /\ [][\A i \in inflight : \A m \in Thrown :
             (/\ SettleFailure(i, m)
              /\ \A j \in Pending(i.run) : j.nodeId = i.nodeId => j = i)
                => \A k \in DOMAIN nodes' :
                      nodes'[k].id = i.nodeId =>
                         /\ nodes'[k].status = "error"
                         /\ nodes'[k].input = i.input
                         /\ nodes'[k].errorMessage = m
         ]_vars

(* C18: the writes of a level are per-node. A success or a failure changes
   only status and output, or status and errorMessage, of the node of its call
   and no field of another node; the start of a level changes only status and
   input of the nodes of its frontier; a node that a run invokes once is
   running with the input of its call while the call is pending, takes the
   result of that call when it settles, and is then changed by no other step
   of the level. *)
C18_IndependentWrites ==
    /\ [][\A i \in inflight : \A o \in Returned :
             SettleSuccess(i, o) =>
                /\ Len(nodes') = Len(nodes)
                /\ \A k \in DOMAIN nodes :
                      IF nodes[k].id = i.nodeId
                      THEN nodes'[k] = [nodes[k] EXCEPT !.status = "completed", !.output = o]
                      ELSE nodes'[k] = nodes[k]
         ]_vars
    /\ [][\A i \in inflight : \A m \in Thrown :
             SettleFailure(i, m) =>
                /\ Len(nodes') = Len(nodes)
                /\ \A k \in DOMAIN nodes :
                      IF nodes[k].id = i.nodeId
                      THEN nodes'[k] = [nodes[k] EXCEPT !.status = "error", !.errorMessage = m]
                      ELSE nodes'[k] = nodes[k]
         ]_vars
    /\ [][\A r \in Slots :
             Advance(r) =>
                /\ Len(nodes') = Len(nodes)
                /\ \A k \in DOMAIN nodes :
                      LET arrivals == {e \in Range(runs[r].nextQueue) : e.nodeId = nodes[k].id}
                      IN  IF arrivals = {}
                          THEN nodes'[k] = nodes[k]
                          ELSE \E e \in arrivals :
                                  nodes'[k] = [nodes[k] EXCEPT !.status = "running",
                                                               !.input = e.input]
         ]_vars
    /\ [](\A i \in inflight :
             SingleArrival(runs[i.run].connections, i.nodeId) =>
                /\ FindNode(nodes, i.nodeId).status = "running"
                /\ FindNode(nodes, i.nodeId).input = i.input)
    /\ [][\A i \in inflight : \A res \in generateAgentResponse :
             (/\ IF res.ok THEN SettleSuccess(i, res.text) ELSE SettleFailure(i, res.text)
              /\ SingleArrival(runs[i.run].connections, i.nodeId))
                => /\ FindNode(nodes', i.nodeId).input = i.input
                   /\ IF res.ok
                      THEN /\ FindNode(nodes', i.nodeId).status = "completed"
                           /\ FindNode(nodes', i.nodeId).output = res.text
                      ELSE /\ FindNode(nodes', i.nodeId).status = "error"
                           /\ FindNode(nodes', i.nodeId).errorMessage = res.text
         ]_vars
    /\ [][\A r \in Slots : \A k \in DOMAIN nodes :
             (/\ runs[r].status = "running" /\ runs'[r].status = "running"
              /\ runs'[r].level = runs[r].level
              /\ Settled(nodes[k])
              /\ SingleArrival(runs[r].connections, nodes[k].id))
                => nodes'[k] = nodes[k]
         ]_vars

C18_Witness ==
    \E r \in Slots : \E k, j \in DOMAIN nodes :
       /\ runs[r].status = "running"
       /\ runs[r].level = 1
       /\ Pending(r) = {}
       /\ SingleArrival(runs[r].connections, nodes[k].id)
       /\ SingleArrival(runs[r].connections, nodes[j].id)
       /\ IsTarget(runs[r].connections, nodes[k].id)
       /\ IsTarget(runs[r].connections, nodes[j].id)
       /\ nodes[k].status = "completed"
       /\ nodes[j].status = "error"

(* C19: reset() during a run leaves every node idle with input and output
   cleared and leaves the run and its pending calls as they are; a call leaves
   the pending set only by settling, and the settlement writes its result
   whatever isRunning is; a run ends only at its own join, with no call pending
   and an empty frontier, and a join with a frontier left issues the next
   level whatever isRunning is. *)
C19_ResetDoesNotCancel ==
    /\ [][(handleReset /\ inflight # {}) =>
             /\ \A k \in DOMAIN nodes' :
                   /\ nodes'[k].status = "idle"
                   /\ nodes'[k].input = Empty
                   /\ nodes'[k].output = Empty
             /\ inflight' = inflight
             /\ runs' = runs
         ]_vars
    /\ [][\A i \in inflight \ inflight' :
             \E res \in generateAgentResponse :
                /\ IF res.ok THEN SettleSuccess(i, res.text) ELSE SettleFailure(i, res.text)
                /\ \A k \in DOMAIN nodes' :
                      nodes'[k].id = i.nodeId =>
                         IF res.ok
                         THEN nodes'[k].status = "completed" /\ nodes'[k].output = res.text
                         ELSE nodes'[k].status = "error" /\ nodes'[k].errorMessage = res.text
         ]_vars
    /\ [][\A r \in Slots :
             (runs[r].status = "running" /\ runs'[r].status # "running") =>
                Advance(r) /\ Pending(r) = {} /\ runs[r].nextQueue = <<>>
         ]_vars
    /\ [][\A r \in Slots :
             (/\ Advance(r)
              /\ \E e \in Range(runs[r].nextQueue) : HasNode(nodes, e.nodeId))
                => /\ runs'[r].status = "running"
                   /\ \E j \in inflight' \ inflight : j.run = r
         ]_vars

C19_Witness ==
    /\ runs[1].status = "running"
    /\ runs[1].level >= 1
    /\ \A r \in Slots : r # 1 => runs[r].status = "free"
    /\ ~isRunning
    /\ \E i \in inflight : i.run = 1 /\ i.level >= 1
    /\ \E k \in DOMAIN nodes :
          /\ nodes[k].status = "completed"
          /\ nodes[k].input = Empty
          /\ nodes[k].output \in Outputs

(* C20: when every call succeeds, a run over a graph with a cycle reachable
   from a root never completes: each join finds a non-empty frontier and
   issues a further level, the run stays in progress and isRunning stays
   true. *)
C20_CycleNeverCompletes ==
    /\ [](\A r \in Slots :
             (/\ runs[r].status \in {"running", "done", "nostart"}
              /\ CycleReachable(nodes, runs[r].connections))
                => runs[r].status = "running" /\ isRunning)
    /\ [][\A r \in Slots :
             (Advance(r) /\ CycleReachable(nodes, runs[r].connections)) =>
                /\ Len(runs[r].nextQueue) > 0
                /\ \E j \in inflight' \ inflight : j.run = r
                /\ runs'[r].status = "running"
                /\ isRunning'
         ]_vars

C20_Witness ==
    \E r \in Slots : \E i \in inflight :
       /\ runs[r].status = "running"
       /\ CycleReachable(nodes, runs[r].connections)
       /\ runs[r].level = MaxLevel
       /\ i.run = r
       /\ i.nodeId \in Descendants(runs[r].connections, i.nodeId)
       /\ FindNode(nodes, i.nodeId).output \in Outputs
       /\ isRunning

(* C22: run() sets every node idle and clears its errorMessage without
   touching input and output (a root is then at once running with the global
   input, its output still unchanged); and as long as a node is not invoked in
   the current run it stays idle and keeps the input and output it had, so at
   the end of the run it carries those of the previous run. *)
C22_RunStartKeepsData ==
    /\ [][runFlow =>
             /\ Len(nodes') = Len(nodes)
             /\ \A k \in DOMAIN nodes :
                   /\ nodes'[k].output = nodes[k].output
                   /\ nodes'[k].errorMessage = Undefined
                   /\ IF nodes[k].id \in RootIds(nodes, connections)
                      THEN nodes'[k].status = "running" /\ nodes'[k].input = globalInput
                      ELSE nodes'[k].status = "idle" /\ nodes'[k].input = nodes[k].input
         ]_vars
    /\ [][\A r \in Slots : \A k \in DOMAIN nodes :
             (/\ runs'[r].status \in {"running", "done"}
              /\ nodes[k].id \notin runs'[r].reached)
                => /\ nodes'[k].input = nodes[k].input
                   /\ nodes'[k].output = nodes[k].output
                   /\ nodes'[k].status = "idle"
         ]_vars

C22_Witness ==
    \E r \in Slots : \E k \in DOMAIN nodes :
       /\ runs[r].status = "done"
       /\ nodes[k].id \notin runs[r].reached
       /\ nodes[k].status = "idle"
       /\ nodes[k].errorMessage = Undefined
       /\ nodes[k].input \in Outputs
       /\ nodes[k].output \in Outputs

(* C21: every call is issued with the systemInstruction its node has in the
   node array at the step that issues it; updateNodeData changes only that
   field of that node and changes neither the calls already pending nor the
   frontier, so an instruction edited during an earlier level is the one a
   later level passes. *)
C21_InstructionReadAtInvocation ==
    /\ [][\A j \in inflight' \ inflight :
             /\ HasNode(nodes, j.nodeId)
             /\ j.systemInstruction = FindNode(nodes, j.nodeId).systemInstruction
             /\ j.systemInstruction = FindNode(nodes', j.nodeId).systemInstruction
         ]_vars
    /\ [][\A id \in 1..MaxClock : \A v \in Instructions :
             updateNodeData(id, v) =>
                /\ Len(nodes') = Len(nodes)
                /\ \A k \in DOMAIN nodes :
                      IF nodes[k].id = id
                      THEN nodes'[k] = [nodes[k] EXCEPT !.systemInstruction = v]
                      ELSE nodes'[k] = nodes[k]
                /\ inflight' = inflight
                /\ runs' = runs
         ]_vars

C21_Witness ==
    \E i \in inflight :
       /\ i.level >= 1
       /\ i.systemInstruction = EditedInstruction
       /\ i.nodeId # InitialNodeId
       /\ \E k \in DOMAIN nodes :
             /\ nodes[k].id \in runs[i.run].succeeded
             /\ nodes[k].systemInstruction # EditedInstruction

(* C23: a run keeps the connection array of the call of run(): it is taken at
   the call and changed by no later step, whatever is done to connections; a
   success appends the targets of the connections of that array leaving its
   node, in the array's order; and a join issues no call for a frontier entry
   whose node is no longer in the node array, leaves that node absent and
   starts the next frontier empty; a node invoked in the run is a root of the
   run's array or the target of one of its connections leaving a succeeded
   node. *)
C23_RunKeepsItsConnections ==
    /\ [][runFlow =>
             \A r \in Slots :
                (runs[r].status # "running" /\ runs'[r].status = "running")
                   => runs'[r].connections = connections
         ]_vars
    /\ [][\A r \in Slots :
             (runs[r].status = "running") => runs'[r].connections = runs[r].connections
         ]_vars
    /\ [][\A i \in inflight : \A o \in Returned :
             SettleSuccess(i, o) =>
                LET kept == SelectSeq(runs[i.run].connections,
                                      LAMBDA c : c.source = i.nodeId)
                IN  runs'[i.run].nextQueue =
                       runs[i.run].nextQueue
                         \o [k \in DOMAIN kept |-> [nodeId |-> kept[k].target, input |-> o]]
         ]_vars
    /\ [][\A r \in Slots :
             Advance(r) =>
                /\ {nodes'[k].id : k \in DOMAIN nodes'} = {nodes[k].id : k \in DOMAIN nodes}
                /\ \A k \in DOMAIN runs[r].nextQueue :
                      ~HasNode(nodes, runs[r].nextQueue[k].nodeId) =>
                         /\ ~\E j \in inflight' \ inflight : j.run = r /\ j.idx = k
                         /\ ~\E j \in inflight' \ inflight :
                               j.nodeId = runs[r].nextQueue[k].nodeId
                /\ runs'[r].nextQueue = <<>>
         ]_vars
    /\ [](\A i \in inflight : i.nodeId \in runs[i.run].reached)
    /\ [](\A r \in Slots : \A id \in runs[r].reached :
             \/ ~IsTarget(runs[r].connections, id)
             \/ id \in Succ(runs[r].connections, runs[r].succeeded))

C23_Witness ==
    \E r \in Slots : \E id \in 1..MaxClock :
       /\ runs[r].status = "done"
       /\ ~HasNode(nodes, id)
       /\ id \notin runs[r].reached
       /\ \E c \in Range(runs[r].connections) :
             c.target = id /\ c.source \in runs[r].succeeded
       /\ \E c \in Range(connections) :
             /\ c \notin Range(runs[r].connections)
             /\ c.source \in runs[r].succeeded
             /\ c.target \notin runs[r].reached

====
